---- MODULE Spec2Model ----
(***************************************************************************)
(* Model of the dataset maintenance scripts of best-originals-by-imdb:     *)
(* the data file data/all.json, the scripts that load it, walk over a      *)
(* subset of its records calling IMDb, and write it back, and the query    *)
(* endpoint that reads it.                                                 *)
(*                                                                         *)
(* Ratings are fixed-point numbers in hundredths (8.2 is 820), vote counts *)
(* are integers.  A title, an id and a poster URL are opaque strings in    *)
(* the pipeline; the text functions (title matching, isOngoing) are        *)
(* modelled on sequences of characters in specifications of their own.     *)
(***************************************************************************)
EXTENDS Integers, Sequences, FiniteSets, TLC

\* ------------------------------------------------------------------ bounds

\* Largest number of records in the data file at the start of a pass.
MaxRecords == 2

\* Longest character sequence given to the text functions.
MaxLen == 3

\* Largest number of pieces (a year, a dash, a letter, a digit) in the text
\* of a page's metadata block.
MaxPieces == 3

\* ------------------------------------------------------------- data model

Platform == {"netflix", "amazon", "apple", "hbo"}

\* `https://www.imdb.com/title/${id}/`
UrlOf(id) == <<"https://www.imdb.com/title/", id, "/">>

\* The year string stored with a title (the scripts only pass it on).
YearOf(title) ==
    CASE title = "Veep" -> <<"2", "0", "1", "2", "EN", "2", "0", "1", "9">>
      [] title = "Hijack" -> <<"2", "0", "2", "3", "EN">>
      [] OTHER -> <<"2", "0", "1", "4">>

\* interface Series; uid is the identity of the object in memory (a record
\* keeps it when its fields are assigned and when the array is sorted).
Series(uid, id, title, rating, votes, poster, platform) ==
    [uid |-> uid, id |-> id, title |-> title, year |-> YearOf(title),
     rating |-> rating, votes |-> votes, poster |-> poster,
     platform |-> platform, imdbUrl |-> UrlOf(id)]

\* The records a data file may hold at the start of a pass.
Catalog ==
    { Series(0, "tt1", "Veep", 820, 100, "old.jpg", "hbo"),
      Series(0, "tt1759761", "Veep", 0, 100, "old.jpg", "hbo"),
      Series(0, "tt1759761", "Hijack", 790, 100, "old.jpg", "apple"),
      Series(0, "tt2", "Hijack", 0, 100, "", "apple"),
      Series(0, "tt2", "Red Oaks", 820, 100, "old.jpg", "apple"),
      Series(0, "tt3", "Red Oaks", 790, 100, "", "amazon"),
      Series(0, "tt3", "Friends", 820, 100, "old.jpg", "netflix"),
      Series(0, "tt1", "Friends", 0, 100, "", "amazon"),
      Series(0, "tt3", "Hijack", 790, 100, "QRCode.png", "apple"),
      Series(0, "tt2", "VEEP", 820, 100, "old.jpg", "hbo") }

Range(s) == { s[i] : i \in 1..Len(s) }

\* A collection sorted by rating, best first.
NonIncreasing(s) == \A i \in 1..(Len(s) - 1) : s[i].rating >= s[i + 1].rating

DistinctIds(s) == \A i, j \in 1..Len(s) : s[i].id = s[j].id => i = j

\* ------------------------------------------------------------------- sort


\* A sort that is not stable: x goes in front of the records it ties with.
RECURSIVE InsertBeforeTies(_, _, _)
InsertBeforeTies(s, x, desc) ==
    IF s = <<>>
    THEN <<x>>
    ELSE IF (IF desc THEN x.rating >= Head(s).rating ELSE x.rating <= Head(s).rating)
         THEN <<x>> \o s
         ELSE <<Head(s)>> \o InsertBeforeTies(Tail(s), x, desc)

\* Where Array.prototype.sort puts x among the already sorted s: the sort
\* is stable, so x, which came later, goes behind every record the
\* comparator does not put strictly after it.
RECURSIVE InsertStable(_, _, _)
InsertStable(s, x, desc) ==
    IF s = <<>>
    THEN <<x>>
    ELSE IF (IF desc THEN x.rating > Head(s).rating ELSE x.rating < Head(s).rating)
         THEN <<x>> \o s
         ELSE <<Head(s)>> \o InsertStable(Tail(s), x, desc)

RECURSIVE SortStable(_, _)
SortStable(s, desc) ==
    IF s = <<>>
    THEN <<>>
    ELSE InsertStable(SortStable(SubSeq(s, 1, Len(s) - 1), desc), s[Len(s)], desc)

\* series.sort((a, b) => b.rating - a.rating)
SortByRating(s) == SortStable(s, TRUE)

\* --------------------------------------------------------- curation tables

\* PLATFORM_CORRECTIONS, restricted to the titles of the model.
PLATFORM_CORRECTIONS == ("Friends" :> "remove") @@ ("Red Oaks" :> "amazon")

\* PLATFORM_CORRECTIONS[s.title]: undefined for a title without an entry.
CorrectionOf(title) ==
    IF title \in DOMAIN PLATFORM_CORRECTIONS
    THEN PLATFORM_CORRECTIONS[title]
    ELSE "undefined"


\* A filter that drops a title marked 'remove' only under one platform.
KeepsOtherPlatforms(s) ==
    ~(CorrectionOf(s.title) = "remove" /\ s.platform = "netflix")

\* The callback of series.filter in fix-platforms: whether the record stays.
Keeps(s) == CorrectionOf(s.title) # "remove"

\* A relabelling that only looks at records filed under netflix.
RelabelFromNetflixOnly(s) ==
    IF CorrectionOf(s.title) \notin {"undefined", "remove"}
       /\ s.platform = "netflix"
    THEN [s EXCEPT !.platform = CorrectionOf(s.title)]
    ELSE s

\* The record as the callback leaves it.
Relabel(s) ==
    IF CorrectionOf(s.title) \notin {"undefined", "remove"}
       /\ CorrectionOf(s.title) # s.platform
    THEN [s EXCEPT !.platform = CorrectionOf(s.title)]
    ELSE s

\* series.filter(...) of fix-platforms: the kept records, relabelled, and
\* the two counters.
RECURSIVE FilterAndCorrect(_)
FilterAndCorrect(s) ==
    IF s = <<>>
    THEN [series |-> <<>>, removed |-> 0, corrected |-> 0]
    ELSE LET rest == FilterAndCorrect(Tail(s))
             h == Head(s)
         IN  IF ~Keeps(h)
             THEN [rest EXCEPT !.removed = @ + 1]
             ELSE [series |-> <<Relabel(h)>> \o rest.series,
                   removed |-> rest.removed,
                   corrected |-> rest.corrected + (IF Relabel(h) # h THEN 1 ELSE 0)]

\* ----------------------------------------------------- reconciliation tables

\* CORRECT_IDS of cleanup.ts, restricted to the titles of the model.
CORRECT_IDS == ("Veep" :> "tt1759761")

\* FAILED_SERIES of fix-failed-ids.ts, restricted to the titles of the model.
FAILED_SERIES == {"Hijack", "Red Oaks"}

\* SERIES_TO_FIX of fix-apple-ids.ts, restricted to the titles of the model.
SERIES_TO_FIX == {"Hijack"}

\* HBO_SERIES_TO_ADD of add-hbo-series.ts: two of its entries.
HBO_SERIES_TO_ADD ==
    << [title |-> "Veep", id |-> "tt1759761"],
       [title |-> "Girls", id |-> "tt1723816"] >>

\* String.prototype.toLowerCase on the titles of the model.
toLowerCase(title) ==
    CASE title = "Veep" -> "veep"
      [] title = "VEEP" -> "veep"
      [] title = "Girls" -> "girls"
      [] title = "Hijack" -> "hijack"
      [] title = "Red Oaks" -> "red oaks"
      [] title = "Friends" -> "friends"
      [] OTHER -> title

\* ------------------------------------------------------------ the network

\* What a page of IMDb may show.  Every call draws its outcome anew: the
\* site may change or fail between two calls.
PagePosters == {"", "old.jpg", "new.jpg"}

\* The ratings a page may carry, in hundredths (0: none found; the page's
\* ratingValue is taken as parseFloat reads it, whatever its size).
PageRatings == {0, 3, 850, 1100}

PageVotes == {100, 10000}

\* The identifiers the search page may put first.
SearchIds == {"tt1759761", "tt2"}

\* The null a fetch returns when the page cannot be reached.
Null == [null |-> TRUE]

\* No fetch was made yet.
NotFetched == [none |-> TRUE]

\* fetchIMDBData of update-ratings: null, or { rating, votes, poster }.
IMDBData ==
    {Null} \cup [rating : PageRatings, votes : PageVotes, poster : {"", "new.jpg"}]

\* fetchIMDBData of add-hbo-series: null, or { rating, votes, year, poster }
\* (the year found on the page is the one the model stores with the title).
IMDBDataHbo ==
    {Null} \cup [rating : PageRatings, votes : {10000}, poster : {"", "new.jpg"}]

\* validateIMDBId of validate-apple-series: { valid, actualTitle, poster }.
\* An unreachable page gives valid false and no poster.
Validation ==
    {[valid |-> FALSE, poster |-> ""]} \cup [valid : {TRUE}, poster : PagePosters]

\* ---------------------------------------------------------------- helpers

Abs(x) == IF x < 0 THEN -x ELSE x

Max(a, b) == IF a >= b THEN a ELSE b

\* The members of a set of numbers, smallest first.
RECURSIVE Ascending(_)
Ascending(S) ==
    IF S = {}
    THEN <<>>
    ELSE LET m == CHOOSE x \in S : \A y \in S : x <= y
         IN  <<m>> \o Ascending(S \ {m})

\* The positions of s whose record satisfies the filter, as Array.filter
\* yields them.
Positions(s, keep) == Ascending({ i \in 1..Len(s) : s[i] \in keep })

\* ------------------------------------------------------ per-record updates

\* cleanup.ts, step 1: keep the first record of every title.
RemoveDuplicates(s) ==
    LET first == Ascending({ i \in 1..Len(s) :
                             \A j \in 1..(i - 1) : s[j].title # s[i].title })
    IN  [k \in 1..Len(first) |-> s[first[k]]]

\* cleanup.ts: whether the loop's condition holds for the record.
NeedsCorrectId(s) ==
    /\ s.title \in DOMAIN CORRECT_IDS
    /\ s.id # CORRECT_IDS[s.title]

\* A loop body that drops the stored poster when the fetch gives none.
ApplyCorrectIdDropsPoster(s, poster) ==
    LET t == [s EXCEPT !.id = CORRECT_IDS[s.title],
                       !.imdbUrl = UrlOf(CORRECT_IDS[s.title])]
    IN  [t EXCEPT !.poster = IF poster = "throw" THEN "" ELSE poster]

\* cleanup.ts: the body of the loop; poster is what fetchPoster returned,
\* "throw" when it threw.
ApplyCorrectId(s, poster) ==
    LET t == [s EXCEPT !.id = CORRECT_IDS[s.title],
                       !.imdbUrl = UrlOf(CORRECT_IDS[s.title])]
    IN  IF poster \notin {"throw", ""} THEN [t EXCEPT !.poster = poster] ELSE t

\* A take-over of the new id that leaves the URL of the old one.
TakeNewIdKeepsUrl(s, newId, poster) ==
    LET t == [s EXCEPT !.id = newId]
    IN  IF poster # "" THEN [t EXCEPT !.poster = poster] ELSE t

\* fix-failed-ids, validate-apple-series, fix-apple-ids: the new id is
\* taken over, and the poster when one came with it.
TakeNewId(s, newId, poster) ==
    LET t == [s EXCEPT !.id = newId, !.imdbUrl = UrlOf(newId)]
    IN  IF poster # "" THEN [t EXCEPT !.poster = poster] ELSE t

\* update-ratings: Math.abs(s.rating - data.rating) >= 0.05
ratingChanged(s, data) == Abs(s.rating - data.rating) >= 5

\* update-ratings: Math.abs(s.votes - data.votes) / Math.max(s.votes, 1) > 0.05
votesChanged(s, data) == 100 * Abs(s.votes - data.votes) > 5 * Max(s.votes, 1)

\* update-ratings: whether the fetch counts as failed.
FetchFailed(data) == data = Null \/ ~(data.rating > 0)


\* A loop body that resets the rating of a record whose fetch failed.
UpdateRatingResetsFailed(s, data) ==
    IF FetchFailed(data)
    THEN [s EXCEPT !.rating = 0]
    ELSE IF ratingChanged(s, data) \/ votesChanged(s, data)
         THEN [s EXCEPT !.rating = data.rating,
                        !.votes = data.votes,
                        !.poster = IF s.poster = "" /\ data.poster # ""
                                   THEN data.poster ELSE @]
         ELSE s

\* A loop body that takes over the rating and forgets the votes.
UpdateRatingKeepsVotes(s, data) ==
    IF FetchFailed(data)
    THEN s
    ELSE IF ratingChanged(s, data) \/ votesChanged(s, data)
         THEN [s EXCEPT !.rating = data.rating,
                        !.poster = IF s.poster = "" /\ data.poster # ""
                                   THEN data.poster ELSE @]
         ELSE s

\* update-ratings: the body of the loop.
UpdateRating(s, data) ==
    IF FetchFailed(data)
    THEN s
    ELSE IF ratingChanged(s, data) \/ votesChanged(s, data)
         THEN [s EXCEPT !.rating = data.rating,
                        !.votes = data.votes,
                        !.poster = IF s.poster = "" /\ data.poster # ""
                                   THEN data.poster ELSE @]
         ELSE s

\* s.poster.includes('QRCode')
IsQRCode(poster) == poster = "QRCode.png"

\* A poster check that only fills in a missing poster.
PosterNeedsUpdateIfMissing(s, validation) ==
    /\ validation.poster # ""
    /\ s.poster = ""

\* validate-apple-series: the branch of a valid id.
PosterNeedsUpdate(s, validation) ==
    /\ validation.poster # ""
    /\ validation.poster # s.poster
    /\ ~IsQRCode(s.poster)

\* add-hbo-series: the entry built from a listed title and its page.
NewEntry(uid, hboSeries, data) ==
    [uid |-> uid, id |-> hboSeries.id, title |-> hboSeries.title,
     year |-> YearOf(hboSeries.title), rating |-> data.rating,
     votes |-> data.votes, poster |-> data.poster, platform |-> "hbo",
     imdbUrl |-> UrlOf(hboSeries.id)]

\* ---------------------------------------------------------- text functions

\* A string is a sequence of characters here.  EN is the en-dash.
EN == "en-dash"

UpperCase == <<"A", "B", "C", "D", "E", "F", "G", "H", "I", "J", "K", "L", "M",
               "N", "O", "P", "Q", "R", "S", "T", "U", "V", "W", "X", "Y", "Z">>

LowerCase == <<"a", "b", "c", "d", "e", "f", "g", "h", "i", "j", "k", "l", "m",
               "n", "o", "p", "q", "r", "s", "t", "u", "v", "w", "x", "y", "z">>

Digits == {"0", "1", "2", "3", "4", "5", "6", "7", "8", "9"}

\* String.prototype.toLowerCase, character by character.
lowerCase(s) ==
    [i \in 1..Len(s) |->
        IF \E k \in 1..Len(UpperCase) : UpperCase[k] = s[i]
        THEN LowerCase[CHOOSE k \in 1..Len(UpperCase) : UpperCase[k] = s[i]]
        ELSE s[i]]

\* String.prototype.includes
includes(s, part) ==
    \E k \in 0..(Len(s) - Len(part)) : SubSeq(s, k + 1, k + Len(part)) = part

\* String.prototype.endsWith
endsWith(s, suffix) ==
    /\ Len(suffix) <= Len(s)
    /\ SubSeq(s, Len(s) - Len(suffix) + 1, Len(s)) = suffix

IsAZ09(c) == c \in Range(LowerCase) \cup Digits

\* s.replace(/[^a-z0-9]/g, '')
stripped(s) == SelectSeq(s, IsAZ09)

\* validateIMDBId of validate-apple-series.ts: its expression titleMatch.
titleMatch(pageTitle, expectedTitle) ==
    \/ includes(lowerCase(pageTitle), lowerCase(expectedTitle))
    \/ includes(lowerCase(expectedTitle), lowerCase(pageTitle))
    \/ stripped(lowerCase(pageTitle)) = stripped(lowerCase(expectedTitle))

\* testIMDBId of fix-failed-ids.ts: the expression it returns.
testMatch(pageTitle, expectedTitle) ==
    \/ includes(lowerCase(pageTitle), lowerCase(expectedTitle))
    \/ includes(lowerCase(expectedTitle), lowerCase(pageTitle))

\* validateIMDBId of fix-apple-ids.ts: its expression titleMatch.
titleMatchFix(pageTitle, expectedTitle) ==
    \/ includes(lowerCase(pageTitle), lowerCase(expectedTitle))
    \/ includes(lowerCase(expectedTitle), lowerCase(pageTitle))
    \/ stripped(lowerCase(pageTitle)) = stripped(lowerCase(expectedTitle))

\* A validator without try/catch: the error fetch throws reaches the caller.
testUnreachableNoCatch(failure) == [threw |-> failure = "throws", valid |-> FALSE]

\* What a validator gives its caller when it cannot reach the page, because
\* the response is not 2xx or because fetch throws.
\* testIMDBId of fix-failed-ids.ts: `if (!response.ok) return false` and
\* `catch (error) { return false }`.
testUnreachable(failure) == [threw |-> FALSE, valid |-> FALSE]

\* validateIMDBId of validate-apple-series.ts: `return { valid: false }` in
\* both places.
validateUnreachable(failure) == [threw |-> FALSE, valid |-> FALSE]

\* validateIMDBId of fix-apple-ids.ts: `return false` in both places.
validateUnreachableFix(failure) == [threw |-> FALSE, valid |-> FALSE]

\* A link is the sequence of the pieces of its href; no link is <<>>.
NameLink == <<"/name/", "nm", "1", "/">>

TitleLink2 == <<"/title/", "tt", "2", "/", "?ref_=fn_tt_tt_1">>

TitleLink3 == <<"/title/", "tt", "3", "/">>

\* A link to a title without the slash after the id.
TitleLinkOpen == <<"/title/", "tt", "3">>

\* The hrefs a selector of the search page may give.
Hrefs == {<<>>, NameLink, TitleLink2, TitleLink3, TitleLinkOpen}

\* The digits of href from position k on, as \d+ takes them.
RECURSIVE DigitRun(_, _)
DigitRun(href, k) ==
    IF k <= Len(href) /\ href[k] \in Digits
    THEN <<href[k]>> \o DigitRun(href, k + 1)
    ELSE <<>>

\* Whether /\/title\/(tt\d+)\// matches href at position k.
MatchesAt(href, k) ==
    /\ k + 3 <= Len(href)
    /\ href[k] = "/title/"
    /\ href[k + 1] = "tt"
    /\ DigitRun(href, k + 2) # <<>>
    /\ k + 2 + Len(DigitRun(href, k + 2)) <= Len(href)
    /\ href[k + 2 + Len(DigitRun(href, k + 2))] = "/"

\* href.match(/\/title\/(tt\d+)\//): the first group of the leftmost
\* match, null without a match.
ParseId(href) ==
    IF \E k \in 1..Len(href) : MatchesAt(href, k)
    THEN LET k == CHOOSE j \in 1..Len(href) :
                     /\ MatchesAt(href, j)
                     /\ \A i \in 1..(j - 1) : ~MatchesAt(href, i)
         IN  [id |-> <<"tt">> \o DigitRun(href, k + 2)]
    ELSE Null

\* The selector a[href*="/title/tt"] matches the link.
PointsAtTitle(href) ==
    \E k \in 1..(Len(href) - 1) : href[k] = "/title/" /\ href[k + 1] = "tt"

\* A search page, by the href of the first element each of the four
\* selectors finds on it: .ipc-metadata-list-summary-item__t,
\* .ipc-metadata-list-summary-item__link, .find-result-item a and
\* a[href*="/title/tt"], which finds a link whenever one of the others
\* found a link to a title.
SearchPages ==
    { page \in [1..4 -> Hrefs] :
        /\ page[4] = <<>> \/ PointsAtTitle(page[4])
        /\ (\E i \in 1..3 : PointsAtTitle(page[i])) => page[4] # <<>> }

\* The href the chain of `if (!href)` ends with: that of the first selector,
\* from the i-th on, that gives a non-empty one.
RECURSIVE FirstHref(_, _)
FirstHref(page, i) ==
    IF i > Len(page)
    THEN <<>>
    ELSE IF page[i] # <<>> THEN page[i] ELSE FirstHref(page, i + 1)

\* searchIMDBByTitle of fix-apple-ids.ts on a page it could fetch.
searchIMDBByTitle(page) ==
    LET href == FirstHref(page, 1)
    IN  IF href # <<>> THEN ParseId(href) ELSE Null

\* searchIMDB of fix-failed-ids.ts on a page it could fetch: the first
\* selector only.
searchIMDB(page) == IF page[1] # <<>> THEN ParseId(page[1]) ELSE Null

\* searchIMDB of validate-apple-series.ts on a page it could fetch: the
\* first selector only.
searchIMDBApple(page) == IF page[1] # <<>> THEN ParseId(page[1]) ELSE Null

\* Whether the four characters of text from position k on are digits.
FourDigitsAt(text, k) ==
    /\ k >= 1
    /\ k + 3 <= Len(text)
    /\ \A i \in k..(k + 3) : text[i] \in Digits

\* yearText.match(/(\d{4})(?:[\u2013-](\d{4})?)?/): null, or the two groups
\* of the leftmost match; the second is <<>> when it took no part.
yearMatch(yearText) ==
    IF \E k \in 1..Len(yearText) : FourDigitsAt(yearText, k)
    THEN LET k == CHOOSE j \in 1..Len(yearText) :
                     /\ FourDigitsAt(yearText, j)
                     /\ \A i \in 1..(j - 1) : ~FourDigitsAt(yearText, i)
         IN  [first |-> SubSeq(yearText, k, k + 3),
              second |-> IF /\ k + 4 <= Len(yearText)
                            /\ yearText[k + 4] \in {EN, "-"}
                            /\ FourDigitsAt(yearText, k + 5)
                         THEN SubSeq(yearText, k + 5, k + 8)
                         ELSE <<>>]
    ELSE Null

\* An extraction that takes a series as ongoing only when the dash stands
\* right behind the year.
extractYearDashBehindYear(yearText) ==
    LET match == yearMatch(yearText)
    IN  IF match = Null
        THEN <<>>
        ELSE IF match.second # <<>>
        THEN match.first \o <<EN>> \o match.second
        ELSE IF \E k \in 1..Len(yearText) :
                   /\ FourDigitsAt(yearText, k)
                   /\ k + 4 <= Len(yearText)
                   /\ yearText[k + 4] \in {EN, "-"}
        THEN match.first \o <<EN>>
        ELSE match.first

\* fetchIMDBData of add-hbo-series.ts, "Get year": the string `year` it
\* makes of the text of the metadata block.
extractYear(yearText) ==
    LET match == yearMatch(yearText)
    IN  IF match = Null
        THEN <<>>
        ELSE IF match.second # <<>>
        THEN match.first \o <<EN>> \o match.second
        ELSE IF includes(yearText, <<EN>>) \/ includes(yearText, <<"-">>)
        THEN match.first \o <<EN>>
        ELSE match.first

\* A test that knows the en-dash only.
isOngoingEnDashOnly(year) == endsWith(year, <<EN>>)

\* isOngoing of pages/index.vue
isOngoing(year) == endsWith(year, <<EN>>) \/ endsWith(year, <<"-">>)

\* ------------------------------------------------------------------ state

VARIABLES
    disk,        \* the records in data/all.json
    diskState,   \* "ok", "torn" while a write has truncated the file,
                 \* "missing" without a file, "corrupt" when it is not JSON
    script,      \* the script that runs, "none" before it starts
    pc,          \* "idle", "loop", "end", "writing", "done", "killed",
                 \* "aborted" when main has thrown, "exited" after
                 \* process.exit(1)
    series,      \* the script's array `series`
    targets,     \* the indexes (into series, or into the list of titles to
                 \* add) the loop walks over, in order
    idx,         \* the loop's position in targets
    newSeries,   \* add-hbo-series: its array `newSeries`
    corrections, \* the length of the script's array `corrections`
    issues,      \* validate-apple-series: the length of its array `issues`
    removed,     \* fix-platforms: its counter `removed`
    corrected,   \* fix-platforms: its counter `corrected`
    fetched,     \* history: what the page fetch of update-ratings returned
                 \* for each record (by uid), "none" before the fetch
    disk0,       \* history: the data file when the pass started
    wrote,       \* history: whether the pass has begun to write the file
    writes,      \* history: how many times the pass called writeFileSync
    log,         \* history: the external calls and the delay of the loop's
                 \* last turn, in the order they were made
    seen,        \* the query endpoint: the data file as its last request read it
    response,    \* the query endpoint: what its last request returned
    call,        \* the text functions: the arguments of the call
    result,      \* the text functions: what the call returned
    beside       \* a second pass run beside the first (fix-platforms): where
                 \* it is, and its array `series`

\* The script's own memory.
prog == <<script, series, targets, idx, newSeries, corrections, issues,
          removed, corrected>>

file == <<disk, diskState>>

hist == <<fetched, disk0, wrote, writes>>

\* What lies outside the script: the endpoint, the text functions and a
\* second pass.
outside == <<seen, response, call, result, beside>>

vars == <<file, pc, prog, hist, log, outside>>

\* Nothing was read, returned or called yet.
Nothing == [nothing |-> TRUE]

\* The second pass before it starts.
NotStarted == [pc |-> "idle", series |-> <<>>]

\* The data files a pass may find: sorted by the last save, ids distinct.
Collections ==
    { c \in UNION { [1..n -> Catalog] : n \in 1..MaxRecords } :
        NonIncreasing(c) /\ DistinctIds(c) }

WithUids(c) == [i \in 1..Len(c) |-> [c[i] EXCEPT !.uid = i]]

Uids == 1..(MaxRecords + Len(HBO_SERIES_TO_ADD))

\* A pass finds the data file as the last save left it, or finds none, or
\* finds one that JSON.parse rejects.
Init ==
    /\ \/ /\ \E c \in Collections : disk = WithUids(c)
          /\ diskState = "ok"
       \/ /\ disk = <<>>
          /\ diskState \in {"missing", "corrupt"}
    /\ script = "none"
    /\ pc = "idle"
    /\ series = <<>>
    /\ targets = <<>>
    /\ idx = 1
    /\ newSeries = <<>>
    /\ corrections = 0
    /\ issues = 0
    /\ removed = 0
    /\ corrected = 0
    /\ fetched = [u \in Uids |-> NotFetched]
    /\ disk0 = disk
    /\ wrote = FALSE
    /\ writes = 0
    /\ log = <<>>
    /\ seen = Nothing
    /\ response = Nothing
    /\ call = Nothing
    /\ result = Nothing
    /\ beside = NotStarted

\* ------------------------------------------------------------- the passes

\* The scripts with a loop over records, and all scripts.
Looped ==
    {"cleanup", "fixFailedIds", "updateRatings", "validateApple", "fixAppleIds",
     "addHbo"}

Scripts == Looped \cup {"fixPlatforms", "updatePoster"}

\* An external call of a turn: await validate/search/fetch.  id is the id
\* asked for (the id found, for a search; "null" when none), ok whether the
\* call gave a result (for a validation: valid), poster the poster that
\* came with it.
Call(op, id, ok, poster) == [op |-> op, id |-> id, ok |-> ok, poster |-> poster]

\* await delay(ms)
Delay(ms) == [op |-> "delay", ms |-> ms]

\* One delay for every loop.
DelayOfSame(name) == 600

\* The argument of the delay at the end of a turn of each script's loop.
DelayOf(name) == IF name = "updateRatings" THEN 400 ELSE 600

\* A script that fetches its first page before it reads the data file.
LoadFailsAfterFetch ==
    /\ pc = "idle"
    /\ diskState # "ok"
    /\ \E name \in Scripts : script' = name
    /\ pc' = "aborted"
    /\ log' = <<Call("fetch", "tt1", FALSE, "")>>
    /\ UNCHANGED <<outside, file, series, targets, idx, newSeries, corrections,
                   issues, removed, corrected, hist>>

\* JSON.parse(readFileSync(DATA_PATH, 'utf-8')), the first statement of every
\* main, throws without a file and on a file that is not JSON: main rejects
\* and the script is over.
LoadFails ==
    /\ pc = "idle"
    /\ diskState # "ok"
    /\ \E name \in Scripts : script' = name
    /\ pc' = "aborted"
    /\ UNCHANGED <<outside, file, series, targets, idx, newSeries, corrections,
                   issues, removed, corrected, hist, log>>

\* JSON.parse(readFileSync(DATA_PATH)) and the choice of the records to
\* walk over; a pass without records goes straight to its end.
Begin(name, loaded, over) ==
    /\ pc = "idle"
    /\ diskState = "ok"
    /\ script' = name
    /\ series' = loaded
    /\ targets' = over
    /\ idx' = 1
    /\ pc' = IF over = <<>> THEN "end" ELSE "loop"
    /\ UNCHANGED <<outside, file, newSeries, corrections, issues, removed, corrected,
                   hist, log>>

\* The loop is at a record of the script.
At(name) == pc = "loop" /\ script = name

\* The record the loop is at.
cur == targets[idx]

\* The loop goes on to its next record, or ends.
Advance ==
    /\ idx' = idx + 1
    /\ pc' = IF idx = Len(targets) THEN "end" ELSE "loop"

\* --------------------------------------------------------------- fix-platforms

\* main of fix-platforms.ts up to the sort: load, filter and relabel.
StartFixPlatforms ==
    /\ pc = "idle"
    /\ diskState = "ok"
    /\ script' = "fixPlatforms"
    /\ LET r == FilterAndCorrect(disk)
       IN  /\ series' = r.series
           /\ removed' = r.removed
           /\ corrected' = r.corrected
    /\ pc' = "end"
    /\ UNCHANGED <<outside, file, targets, idx, newSeries, corrections, issues, hist,
                   log>>

\* --------------------------------------------------------------------- cleanup

StartCleanup ==
    Begin("cleanup", RemoveDuplicates(disk),
          [i \in 1..Len(RemoveDuplicates(disk)) |-> i])

\* A loop that calls fetchPoster outside try/catch: an error it throws
\* ends main.
StepCleanupAbortsOnThrow ==
    /\ At("cleanup")
    /\ IF NeedsCorrectId(series[cur])
       THEN \E poster \in PagePosters \cup {"throw"} :
               /\ series' = [series EXCEPT ![cur] = ApplyCorrectId(@, poster)]
               /\ log' = <<Call("fetch", CORRECT_IDS[series[cur].title],
                                 poster # "throw",
                                 IF poster = "throw" THEN "" ELSE poster)>>
               /\ IF poster = "throw"
                  THEN idx' = idx /\ pc' = "aborted"
                  ELSE Advance
       ELSE /\ series' = series
            /\ log' = <<>>
            /\ Advance
    /\ UNCHANGED <<outside, file, script, targets, newSeries, corrections, issues,
                   removed, corrected, hist>>

\* One turn of `for (const s of series)`: a record with a known correct id
\* that differs gets it, then its poster is fetched.
StepCleanup ==
    /\ At("cleanup")
    /\ IF NeedsCorrectId(series[cur])
       THEN \E poster \in PagePosters \cup {"throw"} :
               /\ series' = [series EXCEPT ![cur] = ApplyCorrectId(@, poster)]
               /\ log' = <<Call("fetch", CORRECT_IDS[series[cur].title],
                                 poster # "throw",
                                 IF poster = "throw" THEN "" ELSE poster),
                           Delay(DelayOf("cleanup"))>>
       ELSE /\ series' = series
            /\ log' = <<>>
    /\ Advance
    /\ UNCHANGED <<outside, file, script, targets, newSeries, corrections, issues,
                   removed, corrected, hist>>

\* --------------------------------------------------------------- update-poster

\* process.argv[2]: the title to update.
StartUpdatePoster ==
    \E seriesTitle \in {"Hijack", "Girls"} :
        LET found == Positions(disk, { s \in Range(disk) : s.title = seriesTitle })
        IN  IF found = <<>>
            THEN \* process.exit(1)
                 /\ pc = "idle"
                 /\ diskState = "ok"
                 /\ script' = "updatePoster"
                 /\ series' = disk
                 /\ pc' = "exited"
                 /\ UNCHANGED <<outside, file, targets, idx, newSeries, corrections,
                                issues, removed, corrected, hist, log>>
            ELSE Begin("updatePoster", disk, <<found[1]>>)

\* fetchPoster returns a poster or null; without one the script exits.
StepUpdatePoster ==
    /\ At("updatePoster")
    /\ \E newPoster \in (PagePosters \ {""}) \cup {"null"} :
          /\ log' = <<Call("fetch", series[cur].id, newPoster # "null",
                            IF newPoster = "null" THEN "" ELSE newPoster)>>
          /\ IF newPoster # "null"
             THEN /\ series' = [series EXCEPT ![cur].poster = newPoster]
                  /\ Advance
             ELSE \* process.exit(1)
                  /\ series' = series
                  /\ idx' = idx
                  /\ pc' = "exited"
    /\ UNCHANGED <<outside, file, script, targets, newSeries, corrections, issues,
                   removed, corrected, hist>>

\* -------------------------------------------------------------- fix-failed-ids

StartFixFailedIds ==
    Begin("fixFailedIds", disk,
          Positions(disk, { s \in Range(disk) : s.title \in FAILED_SERIES }))

\* A turn that takes the id the search found although the current id is
\* valid.
TakesSearchedAlthoughValid(s, currentIdValid, newId, newIdValid) ==
    /\ newId # "null"
    /\ newId # s.id
    /\ newIdValid

\* A turn that takes the id the search found whatever its validation says.
TakesSearchedUnvalidated(s, currentIdValid, newId, newIdValid) ==
    /\ ~currentIdValid
    /\ newId # "null"
    /\ newId # s.id

\* fix-failed-ids: whether the turn takes over the id the search found.
TakesSearched(s, currentIdValid, newId, newIdValid) ==
    /\ ~currentIdValid
    /\ newId # "null"
    /\ newId # s.id
    /\ newIdValid

\* fix-failed-ids: the calls of one turn, testIMDBId, searchIMDB, testIMDBId.
FixFailedIdsCalls(s, currentIdValid, newId, newIdValid) ==
    <<Call("validate", s.id, currentIdValid, "")>>
    \o (IF ~currentIdValid
        THEN <<Call("search", newId, newId # "null", "")>>
             \o (IF newId # "null" /\ newId # s.id
                 THEN <<Call("validate", newId, newIdValid, "")>>
                 ELSE <<>>)
        ELSE <<>>)

\* One turn of the loop: test the current id; if it fails, search, and test
\* what the search found.
StepFixFailedIds ==
    /\ At("fixFailedIds")
    /\ \E currentIdValid \in BOOLEAN, newId \in SearchIds \cup {"null"},
          newIdValid \in BOOLEAN :
          /\ IF TakesSearched(series[cur], currentIdValid, newId, newIdValid)
             THEN /\ series' = [series EXCEPT ![cur] = TakeNewId(@, newId, "")]
                  /\ corrections' = corrections + 1
             ELSE /\ series' = series
                  /\ corrections' = corrections
          /\ log' = FixFailedIdsCalls(series[cur], currentIdValid, newId, newIdValid)
                       \o <<Delay(DelayOf("fixFailedIds"))>>
    /\ Advance
    /\ UNCHANGED <<outside, file, script, targets, newSeries, issues, removed,
                   corrected, hist>>

\* -------------------------------------------------------------- update-ratings

StartUpdateRatings ==
    Begin("updateRatings", disk, [i \in 1..Len(disk) |-> i])

\* One turn of the loop: fetch the page of the record and take over rating
\* and votes when they changed.
StepUpdateRatings ==
    /\ At("updateRatings")
    /\ \E data \in IMDBData :
          /\ series' = [series EXCEPT ![cur] = UpdateRating(@, data)]
          /\ fetched' = [fetched EXCEPT ![series[cur].uid] = data]
          /\ log' = <<Call("fetch", series[cur].id, data # Null,
                            IF data = Null THEN "" ELSE data.poster),
                      Delay(DelayOf("updateRatings"))>>
    /\ Advance
    /\ UNCHANGED <<outside, file, script, targets, newSeries, corrections, issues,
                   removed, corrected, disk0, wrote, writes>>

\* ------------------------------------------------------- validate-apple-series

\* appleSeries: the records of platform apple, lowest rating first.
AppleByRating(s) ==
    LET apple == Positions(s, { r \in Range(s) : r.platform = "apple" })
        keyed == [k \in 1..Len(apple) |-> [rating |-> s[apple[k]].rating, at |-> apple[k]]]
        sorted == SortStable(keyed, FALSE)
    IN  [k \in 1..Len(sorted) |-> sorted[k].at]

StartValidateApple ==
    Begin("validateApple", disk, AppleByRating(disk))

\* validate-apple-series: the calls of one turn, validateIMDBId, searchIMDB,
\* validateIMDBId.
ValidateAppleCalls(s, validation, suggestedId, suggestedValidation) ==
    <<Call("validate", s.id, validation.valid, validation.poster)>>
    \o (IF ~validation.valid
        THEN <<Call("search", suggestedId, suggestedId # "null", "")>>
             \o (IF suggestedId # "null" /\ suggestedId # s.id
                 THEN <<Call("validate", suggestedId, suggestedValidation.valid,
                             suggestedValidation.poster)>>
                 ELSE <<>>)
        ELSE <<>>)

\* One turn of the loop: validate the id; an invalid one is searched anew,
\* a valid one has its poster compared with the page's.
StepValidateApple ==
    /\ At("validateApple")
    /\ \E validation \in Validation, suggestedId \in SearchIds \cup {"null"},
          suggestedValidation \in Validation :
          /\ IF ~validation.valid
             THEN /\ issues' = issues + 1
                  /\ IF suggestedId # "null" /\ suggestedId # series[cur].id
                        /\ suggestedValidation.valid
                     THEN /\ series' = [series EXCEPT ![cur] =
                                           TakeNewId(@, suggestedId, suggestedValidation.poster)]
                          /\ corrections' = corrections + 1
                     ELSE /\ series' = series
                          /\ corrections' = corrections
             ELSE /\ issues' = issues
                  /\ IF PosterNeedsUpdate(series[cur], validation)
                     THEN /\ series' = [series EXCEPT ![cur].poster = validation.poster]
                          /\ corrections' = corrections + 1
                     ELSE /\ series' = series
                          /\ corrections' = corrections
          /\ log' = ValidateAppleCalls(series[cur], validation, suggestedId,
                                       suggestedValidation)
                       \o <<Delay(DelayOf("validateApple"))>>
    /\ Advance
    /\ UNCHANGED <<outside, file, script, targets, newSeries, removed, corrected, hist>>

\* --------------------------------------------------------------- fix-apple-ids

StartFixAppleIds ==
    Begin("fixAppleIds", disk,
          Positions(disk, { s \in Range(disk) :
                            s.platform = "apple" /\ s.title \in SERIES_TO_FIX }))

\* A turn that takes the id the search found without looking at its
\* validation.
TakesFoundUnvalidated(s, newId, isValid) ==
    /\ newId # "null"
    /\ newId # s.id

\* fix-apple-ids: whether the turn takes over the id the search found.
TakesFound(s, newId, isValid) ==
    /\ newId # "null"
    /\ newId # s.id
    /\ isValid

\* fix-apple-ids: the calls of one turn, searchIMDBByTitle, validateIMDBId,
\* fetchPoster.
FixAppleIdsCalls(s, newId, isValid, poster) ==
    <<Call("search", newId, newId # "null", "")>>
    \o (IF newId # "null" /\ newId # s.id
        THEN <<Call("validate", newId, isValid, "")>>
             \o (IF isValid
                 THEN <<Call("fetch", newId, poster # "", poster)>>
                 ELSE <<>>)
        ELSE <<>>)

\* One turn of the loop: search by title, validate what was found, fetch
\* its poster (null is modelled as the empty poster: both leave it alone).
StepFixAppleIds ==
    /\ At("fixAppleIds")
    /\ \E newId \in SearchIds \cup {"null"}, isValid \in BOOLEAN,
          poster \in PagePosters :
          /\ IF TakesFound(series[cur], newId, isValid)
             THEN /\ series' = [series EXCEPT ![cur] = TakeNewId(@, newId, poster)]
                  /\ corrections' = corrections + 1
             ELSE /\ series' = series
                  /\ corrections' = corrections
          /\ log' = FixAppleIdsCalls(series[cur], newId, isValid, poster)
                       \o <<Delay(DelayOf("fixAppleIds"))>>
    /\ Advance
    /\ UNCHANGED <<outside, file, script, targets, newSeries, issues, removed,
                   corrected, hist>>

\* -------------------------------------------------------------- add-hbo-series

StartAddHbo ==
    Begin("addHbo", disk, [i \in 1..Len(HBO_SERIES_TO_ADD) |-> i])

\* A set of the titles as they are stored, not lower-cased.
existingTitlesAsStored == { s.title : s \in Range(series) }

\* existingTitles: the lower-cased titles of the loaded records.
existingTitles == { toLowerCase(s.title) : s \in Range(series) }

\* One turn of the loop over the listed titles: a title already there is
\* skipped, another is fetched and added when its page has a rating.
StepAddHbo ==
    /\ At("addHbo")
    /\ LET hboSeries == HBO_SERIES_TO_ADD[cur]
       IN  IF toLowerCase(hboSeries.title) \in existingTitles
           THEN /\ newSeries' = newSeries
                /\ log' = <<>>
           ELSE \E data \in IMDBDataHbo :
                   /\ IF data # Null /\ data.rating > 0
                      THEN newSeries' = Append(newSeries,
                                               NewEntry(Len(series) + cur, hboSeries, data))
                      ELSE newSeries' = newSeries
                   /\ log' = <<Call("fetch", hboSeries.id, data # Null,
                                     IF data = Null THEN "" ELSE data.poster),
                               Delay(DelayOf("addHbo"))>>
    /\ Advance
    /\ UNCHANGED <<outside, file, script, series, targets, corrections, issues,
                   removed, corrected, hist>>

\* ------------------------------------------------------------------- save

\* A pass that writes the file whether or not it changed anything.
SavesAlways == TRUE

\* Whether the script writes the file at the end of its pass.
Saves ==
    CASE script \in {"fixFailedIds", "fixAppleIds"} -> corrections > 0
      [] script = "validateApple" -> corrections > 0 \/ issues > 0
      [] script = "addHbo" -> Len(newSeries) > 0
      [] OTHER -> TRUE

\* The array the script sorts and writes.
ToSave == IF script = "addHbo" THEN series \o newSeries ELSE series


\* A save that forgets to sort.
Unsorted(s) == s

\* What the script hands to writeFileSync.
Sorted(s) == SortByRating(s)


\* A save made inside the loop: the file is written after a record, and the
\* loop goes on.
SaveInsideLoop ==
    /\ pc \in {"loop", "end"}
    /\ Saves
    /\ disk' = Sorted(ToSave)
    /\ diskState' = "ok"
    /\ wrote' = TRUE
    /\ writes' = writes + 1
    /\ pc' = IF pc = "loop" THEN "loop" ELSE "done"
    /\ UNCHANGED <<outside, prog, fetched, disk0, log>>

\* series.sort(...) and the first half of writeFileSync: the file is opened
\* with flag 'w', which truncates it.
BeginSave ==
    /\ pc = "end"
    /\ Saves
    /\ series' = Sorted(ToSave)
    /\ disk' = <<>>
    /\ diskState' = "torn"
    /\ wrote' = TRUE
    /\ writes' = writes + 1
    /\ pc' = "writing"
    /\ UNCHANGED <<outside, script, targets, idx, newSeries, corrections, issues,
                   removed, corrected, fetched, disk0, log>>

\* The second half of writeFileSync: the JSON text is written and the file
\* closed.
FinishSave ==
    /\ pc = "writing"
    /\ disk' = series
    /\ diskState' = "ok"
    /\ pc' = "done"
    /\ UNCHANGED <<outside, prog, hist, log>>

\* The pass made no correction: the script ends without writing.
SkipSave ==
    /\ pc = "end"
    /\ ~Saves
    /\ pc' = "done"
    /\ UNCHANGED <<outside, file, prog, hist, log>>

\* The process is killed while the pass runs.
Kill ==
    /\ pc \in {"loop", "end", "writing"}
    /\ pc' = "killed"
    /\ UNCHANGED <<outside, file, prog, hist, log>>

Next ==
    \/ LoadFails
    \/ StartFixPlatforms
    \/ StartCleanup
    \/ StepCleanup
    \/ StartUpdatePoster
    \/ StepUpdatePoster
    \/ StartFixFailedIds
    \/ StepFixFailedIds
    \/ StartUpdateRatings
    \/ StepUpdateRatings
    \/ StartValidateApple
    \/ StepValidateApple
    \/ StartFixAppleIds
    \/ StepFixAppleIds
    \/ StartAddHbo
    \/ StepAddHbo
    \/ BeginSave
    \/ FinishSave
    \/ SkipSave
    \/ Kill

Spec == Init /\ [][Next]_vars

\* ---------------------------------------------------------- the query endpoint

DigitChars == <<"0", "1", "2", "3", "4", "5", "6", "7", "8", "9">>

\* parseInt(text) || 0: the number the leading digits spell, 0 without any.
RECURSIVE ParseDigits(_, _)
ParseDigits(text, acc) ==
    IF text # <<>> /\ Head(text) \in Digits
    THEN ParseDigits(Tail(text),
                     10 * acc + (CHOOSE n \in 0..9 : DigitChars[n + 1] = Head(text)))
    ELSE acc

\* parseInt(a.year.slice(0, 4)) || 0
YearNumber(year) == ParseDigits(SubSeq(year, 1, IF Len(year) < 4 THEN Len(year) ELSE 4), 0)

\* The number the comparator of the endpoint compares two records by.
SortKey(s, sort) ==
    CASE sort = "rating" -> s.rating
      [] sort = "votes" -> s.votes
      [] sort = "year" -> YearNumber(s.year)

\* series.sort(...) of the endpoint: stable, by the key, in the order asked
\* for (the key is carried in the field the sort compares).
SortFor(s, sort, order) ==
    LET keyed == [k \in 1..Len(s) |-> [rating |-> SortKey(s[k], sort), at |-> k]]
        sorted == SortStable(keyed, order = "desc")
    IN  [k \in 1..Len(s) |-> s[sorted[k].at]]

\* What the handler returns for the file it read.
Respond(state, content, platform, sort, order, limit) ==
    IF state = "missing"
    THEN \* existsSync(dataPath) is false
         [success |-> FALSE, error |-> "No data file found. Run npm run scrape first.",
          series |-> <<>>]
    ELSE IF state # "ok"
    THEN \* JSON.parse throws on a truncated file and on one that is not JSON
         [success |-> FALSE, error |-> "Failed to load series data", series |-> <<>>]
    ELSE LET chosen == IF platform # "all"
                       THEN SelectSeq(content, LAMBDA s : s.platform = platform)
                       ELSE content
             sorted == SortFor(chosen, sort, order)
             cut == IF limit > 0 /\ limit < Len(sorted)
                    THEN SubSeq(sorted, 1, limit) ELSE sorted
         IN  [success |-> TRUE, count |-> Len(cut), platform |-> platform,
              series |-> cut]

\* A handler that writes the list it has sorted back to the data file.
QueryEndpointWritesBack ==
    /\ \E platform \in {"all", "apple"}, sort \in {"rating", "votes", "year"},
          order \in {"asc", "desc"}, limit \in 0..1 :
          response' = Respond(diskState, disk, platform, sort, order, limit)
    /\ seen' = [state |-> diskState, series |-> disk]
    /\ disk' = IF response'.success THEN response'.series ELSE disk
    /\ UNCHANGED <<diskState, pc, prog, hist, log, call, result, beside>>

\* One request to /api/series: the handler reads the data file as it is
\* at that moment.
QueryEndpoint ==
    /\ \E platform \in {"all", "apple"}, sort \in {"rating", "votes", "year"},
          order \in {"asc", "desc"}, limit \in 0..1 :
          response' = Respond(diskState, disk, platform, sort, order, limit)
    /\ seen' = [state |-> diskState, series |-> disk]
    /\ UNCHANGED <<file, pc, prog, hist, log, call, result, beside>>

\* The server answers requests while one of the scripts that always save
\* (curation, cleanup, poster update) runs beside it.
NextWithEndpoint ==
    \/ QueryEndpoint
    \/ LoadFails
    \/ StartFixPlatforms
    \/ StartCleanup
    \/ StepCleanup
    \/ StartUpdatePoster
    \/ StepUpdatePoster
    \/ BeginSave
    \/ FinishSave
    \/ Kill

SpecEndpoint == Init /\ [][NextWithEndpoint]_vars

\* ------------------------------------------------------------ two passes

\* What a step of the second pass leaves alone.
firstPass == <<pc, prog, hist, log, seen, response, call, result>>

\* fix-platforms is started as a second process: main of fix-platforms.ts
\* up to the sort, on the data file as it is at that moment.
BesideStart ==
    /\ beside.pc = "idle"
    /\ diskState = "ok"
    /\ beside' = [pc |-> "end", series |-> FilterAndCorrect(disk).series]
    /\ UNCHANGED <<firstPass, file>>

\* The second process finds the file truncated by the first: JSON.parse
\* throws.
BesideLoadFails ==
    /\ beside.pc = "idle"
    /\ diskState # "ok"
    /\ beside' = [beside EXCEPT !.pc = "aborted"]
    /\ UNCHANGED <<firstPass, file>>

\* The sort and the first half of writeFileSync of the second process.
BesideBeginSave ==
    /\ beside.pc = "end"
    /\ beside' = [pc |-> "writing", series |-> SortByRating(beside.series)]
    /\ disk' = <<>>
    /\ diskState' = "torn"
    /\ UNCHANGED firstPass

\* The second half of writeFileSync of the second process.
BesideFinishSave ==
    /\ beside.pc = "writing"
    /\ beside' = [beside EXCEPT !.pc = "done"]
    /\ disk' = beside.series
    /\ diskState' = "ok"
    /\ UNCHANGED firstPass

\* The ratings refresh and the curation run as two processes on one data
\* file; nothing keeps one from starting while the other runs.
NextTwoPasses ==
    \/ LoadFails
    \/ StartUpdateRatings
    \/ StepUpdateRatings
    \/ BeginSave
    \/ FinishSave
    \/ BesideStart
    \/ BesideLoadFails
    \/ BesideBeginSave
    \/ BesideFinishSave

SpecTwoPasses == Init /\ [][NextTwoPasses]_vars

\* ------------------------------------------------------ text function calls

TitleChars == {"a", "A", "b", "!"}

YearChars == {"2", "7", EN, "-"}

\* The strings over an alphabet of at most n characters.
Strings(chars, n) == UNION { [1..k -> chars] : k \in 0..n }

BoschLegacy == <<"B", "o", "s", "c", "h", ":", " ", "L", "e", "g", "a", "c", "y">>

BoschLegacyPage == BoschLegacy \o <<" ", "(", "T", "V", " ", "S", "e", "r", "i", "e", "s", ")">>

Year2017 == <<"2", "0", "1", "7">>

Year2020 == <<"2", "0", "2", "0">>

\* The pieces the text of a metadata block is made of.
Pieces ==
    {<<"2", "0", "1", "7">>, <<"2", "0", "2", "3">>, <<EN>>, <<"-">>, <<"T">>, <<"1">>}

\* The texts of at most n pieces.
RECURSIVE Texts(_)
Texts(n) ==
    IF n = 0
    THEN {<<>>}
    ELSE Texts(n - 1) \cup { t \o p : t \in Texts(n - 1), p \in Pieces }

\* The calls of the text functions: a validator's comparison of the title
\* of a page with the title of a record, a validator's call for a page it
\* cannot reach, a search resolver's reading of a search page, the
\* extraction of the year from the text of a metadata block, and isOngoing of
\* a year string.
Calls ==
    [kind : {"titles"},
     expectedTitle : (Strings(TitleChars, MaxLen) \ {<<>>}) \cup {BoschLegacy},
     pageTitle : Strings(TitleChars, MaxLen) \cup {BoschLegacyPage}]
    \cup
    [kind : {"unreachable"},
     expectedTitle : (Strings(TitleChars, 1) \ {<<>>}) \cup {BoschLegacy},
     failure : {"non2xx", "throws"}]
    \cup
    [kind : {"search"}, page : SearchPages]
    \cup
    [kind : {"yearText"}, yearText : Texts(MaxPieces)]
    \cup
    [kind : {"year"},
     year : Strings(YearChars, MaxLen)
            \cup {Year2017, Year2017 \o <<EN>>, Year2020 \o <<"-">>,
                  Year2017 \o <<EN, "2", "0", "2", "3">>}]

InitText ==
    /\ disk = <<>>
    /\ diskState = "ok"
    /\ script = "none"
    /\ pc = "idle"
    /\ series = <<>>
    /\ targets = <<>>
    /\ idx = 1
    /\ newSeries = <<>>
    /\ corrections = 0
    /\ issues = 0
    /\ removed = 0
    /\ corrected = 0
    /\ fetched = [u \in Uids |-> NotFetched]
    /\ disk0 = disk
    /\ wrote = FALSE
    /\ writes = 0
    /\ log = <<>>
    /\ seen = Nothing
    /\ response = Nothing
    /\ call \in Calls
    /\ result = Nothing
    /\ beside = NotStarted

\* A function is called with the arguments drawn and returns.
Returns(kind, by, value) ==
    /\ call.kind = kind
    /\ result = Nothing
    /\ result' = [by |-> by, value |-> value]
    /\ UNCHANGED <<file, pc, prog, hist, log, seen, response, call, beside>>

\* validateIMDBId of validate-apple-series.ts on a page it could fetch.
ValidateIMDBId ==
    Returns("titles", "validate-apple-series",
            titleMatch(call.pageTitle, call.expectedTitle))

\* validateIMDBId of fix-apple-ids.ts on a page it could fetch.
ValidateIMDBIdFix ==
    Returns("titles", "fix-apple-ids",
            titleMatchFix(call.pageTitle, call.expectedTitle))

\* testIMDBId of fix-failed-ids.ts on a page it could fetch.
TestIMDBId ==
    Returns("titles", "fix-failed-ids",
            testMatch(call.pageTitle, call.expectedTitle))

IsOngoing == Returns("year", "isOngoing", isOngoing(call.year))

\* A validator is called for a page it cannot reach, and returns or throws.
Unreachable(by, outcome) ==
    /\ call.kind = "unreachable"
    /\ result = Nothing
    /\ result' = [by |-> by, value |-> outcome.valid, threw |-> outcome.threw]
    /\ UNCHANGED <<file, pc, prog, hist, log, seen, response, call, beside>>

\* validateIMDBId of validate-apple-series.ts on a page it cannot reach.
ValidateIMDBIdUnreachable ==
    Unreachable("validate-apple-series", validateUnreachable(call.failure))

\* validateIMDBId of fix-apple-ids.ts on a page it cannot reach.
ValidateIMDBIdFixUnreachable ==
    Unreachable("fix-apple-ids", validateUnreachableFix(call.failure))

\* testIMDBId of fix-failed-ids.ts on a page it cannot reach.
TestIMDBIdUnreachable ==
    Unreachable("fix-failed-ids", testUnreachable(call.failure))

\* searchIMDBByTitle of fix-apple-ids.ts reads the search page.
SearchIMDBByTitle ==
    Returns("search", "fix-apple-ids", searchIMDBByTitle(call.page))

\* searchIMDB of fix-failed-ids.ts reads the search page.
SearchIMDB ==
    Returns("search", "fix-failed-ids", searchIMDB(call.page))

\* searchIMDB of validate-apple-series.ts reads the search page.
SearchIMDBApple ==
    Returns("search", "validate-apple-series", searchIMDBApple(call.page))

\* fetchIMDBData of add-hbo-series.ts makes the year string of the page.
ExtractYear ==
    Returns("yearText", "add-hbo-series", extractYear(call.yearText))

NextText ==
    \/ ValidateIMDBId
    \/ ValidateIMDBIdFix
    \/ TestIMDBId
    \/ IsOngoing
    \/ ValidateIMDBIdUnreachable
    \/ ValidateIMDBIdFixUnreachable
    \/ TestIMDBIdUnreachable
    \/ SearchIMDBByTitle
    \/ SearchIMDB
    \/ SearchIMDBApple
    \/ ExtractYear

SpecText == InitText /\ [][NextText]_vars

\* ----------------------------------------------------------------- claims

\* The scripts that reconcile identifiers or add records.
Reconciles ==
    script \in {"cleanup", "fixAppleIds", "fixFailedIds", "validateApple", "addHbo"}

\* The record of the written file that is the object r of the loaded one.
Persisted(r) == { q \in Range(disk) : q.uid = r.uid }

\* The pass ended after writing the file.
Saved == pc = "done" /\ wrote

\* C1: after a reconciliation pass that started from a file with pairwise
\* distinct ids, no two records of the written file share an id.
C1_UniqueIdsAfterPass ==
    (Saved /\ Reconciles /\ DistinctIds(disk0)) => DistinctIds(disk)

\* C2: as long as the pass is in its loop or at its end, and when it was
\* killed before it began to save, the data file is the one the pass loaded:
\* nothing is written inside the loop.
C2_FileUntouchedBeforeSave ==
    (pc \in {"loop", "end"} \/ (pc = "killed" /\ ~wrote))
        => (disk = disk0 /\ diskState = "ok")

\* C2 witness: a pass killed after its first record of two, with a
\* correction already made in memory.
C2_KilledMidPass ==
    /\ pc = "killed"
    /\ ~wrote
    /\ idx = 2
    /\ Len(targets) = 2
    /\ series # disk0

\* C3, as stated: after the ratings refresh, a record whose fetch failed has
\* rating 0 in the written file and its other fields as before.
C3_FailedFetchHasRatingZero ==
    (Saved /\ script = "updateRatings") =>
        \A r \in Range(disk0) :
            (fetched[r.uid] # NotFetched /\ FetchFailed(fetched[r.uid]))
                => \E q \in Persisted(r) : q = [r EXCEPT !.rating = 0]

\* C3, amended: after the ratings refresh, a record whose fetch failed is
\* in the written file with every field, the rating included, as before.
C3_FailedFetchKeepsRecord ==
    (Saved /\ script = "updateRatings") =>
        \A r \in Range(disk0) :
            (fetched[r.uid] # NotFetched /\ FetchFailed(fetched[r.uid]))
                => Persisted(r) = {r}

\* C3 witness: the refresh saved, and a record rated above 0 had a failed
\* fetch, one by null and another by a page without rating.
C3_FailedFetchOfRatedRecord ==
    /\ Saved
    /\ script = "updateRatings"
    /\ \E r \in Range(disk0) : r.rating > 0 /\ fetched[r.uid] = Null
    /\ \E r \in Range(disk0) :
          /\ fetched[r.uid] \notin {Null, NotFetched}
          /\ fetched[r.uid].rating = 0

\* C4: the file any script has written is non-increasing in rating.
C4_WrittenFileSorted == Saved => NonIncreasing(disk)

\* C4 witness: a refresh wrote a file in which the record that was second
\* is now first.
C4_SaveReordered ==
    /\ Saved
    /\ Len(disk) >= 2
    /\ disk[1].uid = 2
    /\ disk[1].rating > disk[2].rating

\* C5: the curation pass is idempotent: applied to the file it wrote, the
\* filter, the relabelling and the sort give that file again, in the same
\* order, and nothing is removed or relabelled.
C5_CurationIdempotent ==
    (Saved /\ script = "fixPlatforms") =>
        LET again == FilterAndCorrect(disk)
        IN  /\ SortByRating(again.series) = disk
            /\ again.removed = 0
            /\ again.corrected = 0

\* C5 witness: a curation pass that removed one record and relabelled
\* another.
C5_CurationDidSomething ==
    /\ Saved
    /\ script = "fixPlatforms"
    /\ removed > 0
    /\ corrected > 0

\* C6: after the curation pass no record whose title is marked 'remove'
\* is in the file, whatever its platform, and every other record still is.
C6_RemovedExactlyMarked ==
    (Saved /\ script = "fixPlatforms") =>
        /\ \A q \in Range(disk) :
              ~(q.title \in DOMAIN PLATFORM_CORRECTIONS
                /\ PLATFORM_CORRECTIONS[q.title] = "remove")
        /\ \A q \in Range(disk) : q.title # "Friends"
        /\ \A r \in Range(disk0) :
              ~(r.title \in DOMAIN PLATFORM_CORRECTIONS
                /\ PLATFORM_CORRECTIONS[r.title] = "remove")
              => Persisted(r) # {}

\* C6 witness: "Friends" was in the file under a platform other than
\* netflix beside another title, and the pass saved.
C6_FriendsWasThere ==
    /\ Saved
    /\ script = "fixPlatforms"
    /\ \E r \in Range(disk0) : r.title = "Friends" /\ r.platform # "netflix"
    /\ Len(disk) = 1

\* The fetch of record r succeeded with a rating above 0.
FetchedRating(r) ==
    /\ fetched[r.uid] # NotFetched
    /\ fetched[r.uid] # Null
    /\ fetched[r.uid].rating > 0

\* C7, as stated: a record stored with rating 0 whose fetch succeeds with
\* rating r > 0, votes v and poster p is written with rating r, votes v and
\* poster p, in a file in descending order of rating.
C7_RefreshShowsFetchedFields ==
    (Saved /\ script = "updateRatings") =>
        /\ NonIncreasing(disk)
        /\ \A r \in Range(disk0) :
              (r.rating = 0 /\ FetchedRating(r)) =>
                  \E q \in Persisted(r) :
                      /\ q.rating = fetched[r.uid].rating
                      /\ q.votes = fetched[r.uid].votes
                      /\ q.poster = fetched[r.uid].poster

\* C7, amended: such a record, when the fetched rating is at least 0.05 or
\* the votes differ by more than 5 percent, is written with rating r and
\* votes v; its poster is p only if the stored poster was empty, and the
\* stored poster otherwise; the file is in descending order of rating.
C7_RefreshShowsRatingAndVotes ==
    (Saved /\ script = "updateRatings") =>
        /\ NonIncreasing(disk)
        /\ \A r \in Range(disk0) :
              (/\ r.rating = 0
               /\ FetchedRating(r)
               /\ \/ fetched[r.uid].rating >= 5
                  \/ 100 * Abs(r.votes - fetched[r.uid].votes) > 5 * Max(r.votes, 1))
              => Persisted(r) =
                    {[r EXCEPT !.rating = fetched[r.uid].rating,
                               !.votes = fetched[r.uid].votes,
                               !.poster = IF r.poster = ""
                                          THEN fetched[r.uid].poster ELSE @]}

\* C7 witness: the last record of the file, stored with rating 0 and no
\* poster, was fetched with rating 8.5, 10000 votes and a poster, and is
\* first in the written file.
C7_ZeroRatedMovedUp ==
    /\ Saved
    /\ script = "updateRatings"
    /\ Len(disk0) = 2
    /\ disk0[2].rating = 0
    /\ disk0[2].poster = ""
    /\ fetched[2] = [rating |-> 850, votes |-> 10000, poster |-> "new.jpg"]
    /\ disk[1].uid = 2

\* A validator has compared the two titles of the call.
Compared == call # Nothing /\ call.kind = "titles" /\ result # Nothing

\* Rule (a): one title contains the other, ignoring case.
RuleContainment(page, expected) ==
    \/ \E k \in 0..(Len(page) - Len(expected)) :
          lowerCase(SubSeq(page, k + 1, k + Len(expected))) = lowerCase(expected)
    \/ \E k \in 0..(Len(expected) - Len(page)) :
          lowerCase(SubSeq(expected, k + 1, k + Len(page))) = lowerCase(page)

\* Rule (b): the titles are equal, ignoring case.
RuleEquality(page, expected) == lowerCase(page) = lowerCase(expected)

\* Rule (c): the titles are equal once only their letters and digits are
\* kept, ignoring case.
RuleLettersAndDigits(page, expected) ==
    LET kept(s) == SelectSeq(lowerCase(s),
                             LAMBDA c : c \in Range(LowerCase) \cup Digits)
    IN  kept(page) = kept(expected)

\* C8: every validator reports valid exactly when one of the three rules
\* holds between the title of the page and the expected title; "Bosch:
\* Legacy" against "Bosch: Legacy (TV Series)" is valid.
C8_ValidExactlyByThreeRules ==
    Compared =>
        /\ result.value <=>
              \/ RuleContainment(call.pageTitle, call.expectedTitle)
              \/ RuleEquality(call.pageTitle, call.expectedTitle)
              \/ RuleLettersAndDigits(call.pageTitle, call.expectedTitle)
        /\ (call.expectedTitle = BoschLegacy /\ call.pageTitle = BoschLegacyPage)
              => result.value

\* isOngoing has returned for the year of the call.
Answered == call # Nothing /\ call.kind = "year" /\ result # Nothing

\* C9: isOngoing is true exactly when the year string ends with an en-dash
\* or a hyphen: "2017-" with either dash is ongoing, "2017-2023" and
\* "2017" are not.
C9_OngoingIffTrailingDash ==
    Answered =>
        /\ result.value <=>
              (call.year # <<>> /\ call.year[Len(call.year)] \in {EN, "-"})
        /\ call.year \in {Year2017 \o <<EN>>, Year2020 \o <<"-">>} => result.value
        /\ call.year \in {Year2017 \o <<EN, "2", "0", "2", "3">>, Year2017}
              => ~result.value

\* C9 witness: isOngoing has answered true for "2020-".
C9_Hyphen2020Ongoing ==
    /\ Answered
    /\ call.year = Year2020 \o <<"-">>
    /\ result.value

\* C10: a request that reads the data file sees the whole file of before
\* the pass or the whole file the pass writes, never a truncated one.
C10_ReaderSeesWholeFile ==
    seen # Nothing =>
        /\ seen.state = "ok"
        /\ \/ seen.series = disk0
           \/ (wrote /\ seen.series = series)

\* The data file is missing or is not JSON.
StoreUnavailable == diskState \in {"missing", "corrupt"}

\* C11, as stated: with the data file missing or unparsable a script aborts
\* before any network call and any write, and no other failure ends a run
\* before its end.
C11_OnlyLoadFailureEndsRun ==
    /\ StoreUnavailable =>
          (pc \in {"idle", "aborted"} /\ log = <<>> /\ writes = 0 /\ disk = disk0)
    /\ pc \in {"aborted", "exited"} => StoreUnavailable

\* C11, amended: with the data file missing or unparsable every script
\* aborts before any network call and any write; no other failure ends a
\* run of a looped pass or of the curation, and the poster update of one
\* title also ends, with nothing written, when the title is not in the file
\* or its poster cannot be fetched.
C11_LoadFailureAbortsFirst ==
    /\ StoreUnavailable =>
          (pc \in {"idle", "aborted"} /\ log = <<>> /\ writes = 0 /\ disk = disk0)
    /\ pc = "aborted" => StoreUnavailable
    /\ pc = "exited" =>
          /\ script = "updatePoster"
          /\ writes = 0
          /\ disk = disk0
          /\ \/ targets = <<>>
             \/ (Len(log) = 1 /\ log[1].op = "fetch" /\ ~log[1].ok)

\* C11 witness: the repair script has aborted on a file that is not JSON.
C11_AbortedOnCorruptFile ==
    /\ pc = "aborted"
    /\ script = "fixFailedIds"
    /\ diskState = "corrupt"

C13_EndpointNeverWrites ==
    [][ (seen' # seen \/ response' # response)
          => (disk' = disk /\ diskState' = diskState) ]_vars

\* C13 witness: a request was answered with the two records in another
\* order than the file's, and the file is as the request read it.
C13_AnsweredInAnotherOrder ==
    /\ response # Nothing
    /\ response.success
    /\ Len(response.series) = 2
    /\ response.series # disk
    /\ seen = [state |-> "ok", series |-> disk]

\* A validator was called for a page it could not reach, and the call is over.
Unreached == call # Nothing /\ call.kind = "unreachable" /\ result # Nothing

\* C14: a validator that cannot reach the page, by a response that is not
\* 2xx or by a network error, returns valid = false and throws nothing.
C14_UnreachablePageIsInvalid ==
    Unreached => (~result.threw /\ ~result.value)

\* C14 witness: fetch threw inside testIMDBId, which returned false.
C14_TestReturnedFalseOnThrow ==
    /\ Unreached
    /\ call.failure = "throws"
    /\ result.by = "fix-failed-ids"
    /\ ~result.value

\* C15: every record in the file written by the ratings refresh or by the
\* addition of missing titles has a rating between 0 and 10, whatever the
\* pages carried.
C15_PersistedRatingInRange ==
    (Saved /\ script \in {"updateRatings", "addHbo"}) =>
        \A q \in Range(disk) : q.rating >= 0 /\ q.rating <= 1000

\* The loop of the script has made a turn and the file is not yet sorted.
TurnMade(name) == script = name /\ pc \in {"loop", "end"} /\ idx > 1

\* The record of the loop's last turn, as the pass loaded it and as the
\* turn left it.
Before == disk0[targets[idx - 1]]

After == series[targets[idx - 1]]

\* The turn began by validating the id the record had.
ValidatedFirst ==
    /\ Len(log) > 0
    /\ log[1].op = "validate"
    /\ log[1].id = Before.id

\* The turn searched only after the validation of the record's id failed.
SearchedOnlyAfterInvalid ==
    \A i \in 1..Len(log) :
        log[i].op = "search" => (i = 2 /\ log[1].op = "validate" /\ ~log[1].ok)

\* An id that was replaced is the one the search found and its validation
\* passed.
ReplacedByValidated ==
    After.id # Before.id =>
        \E i \in 2..Len(log) :
            /\ log[i].op = "validate" /\ log[i].id = After.id /\ log[i].ok
            /\ log[i - 1].op = "search" /\ log[i - 1].id = After.id

\* C16, as stated: in the three repairing scripts a turn validates the
\* current id first, searches only if that failed, and replaces the id only
\* by a suggestion that passed validation.
C16_ValidateSearchValidate ==
    \A name \in {"fixFailedIds", "validateApple", "fixAppleIds"} :
        TurnMade(name) =>
            ValidatedFirst /\ SearchedOnlyAfterInvalid /\ ReplacedByValidated

\* C16, amended: so it is in fix-failed-ids and validate-apple-series; a
\* turn of fix-apple-ids searches at once, without validating the current
\* id; in all three the id is replaced only by a suggestion that passed
\* validation.
C16_ReplacedOnlyByValidated ==
    /\ \A name \in {"fixFailedIds", "validateApple"} :
          TurnMade(name) =>
              ValidatedFirst /\ SearchedOnlyAfterInvalid /\ ReplacedByValidated
    /\ TurnMade("fixAppleIds") =>
          (log[1].op = "search" /\ ReplacedByValidated)

\* C16 witness: a turn of fix-failed-ids found the current id invalid,
\* searched, validated what it found and took it.
C16_RepairedAfterSearch ==
    /\ TurnMade("fixFailedIds")
    /\ After.id # Before.id
    /\ Len(log) = 4
    /\ ~log[1].ok
    /\ log[3].ok

\* C17: in fix-failed-ids a record whose current id validates is left as
\* it was, field by field, and the turn makes no other call than that
\* validation: no search, no second validation, no poster fetch.
C17_ValidRecordUntouched ==
    (TurnMade("fixFailedIds") /\ log[1].ok) =>
        /\ After = Before
        /\ \A i \in 2..Len(log) : log[i].op = "delay"

\* C17 witness: the second of two records of the repair list had a valid
\* id.
C17_SecondRecordWasValid ==
    /\ TurnMade("fixFailedIds")
    /\ idx = 3
    /\ log[1].op = "validate"
    /\ log[1].id = Before.id
    /\ log[1].ok

\* The last turn of validate-apple-series found the id valid and a poster
\* on the page that is not the stored one.
ValidWithOtherPoster ==
    /\ TurnMade("validateApple")
    /\ log[1].ok
    /\ log[1].poster # ""
    /\ log[1].poster # Before.poster

\* C18, as stated: in validate-apple-series a record whose id validates
\* gets the page's poster whenever that is non-empty and differs from the
\* stored one.
C18_PosterReplacedWhenDifferent ==
    ValidWithOtherPoster => After.poster = log[1].poster

\* C18, amended: it gets the page's poster unless the stored poster is a
\* QRCode image, which is kept; nothing else of the record changes.
C18_PosterReplacedUnlessQRCode ==
    ValidWithOtherPoster =>
        After = [Before EXCEPT !.poster = IF IsQRCode(Before.poster)
                                         THEN @ ELSE log[1].poster]

\* C18 witness: a valid record stored with old.jpg has new.jpg after its
\* turn.
C18_OldPosterReplaced ==
    /\ ValidWithOtherPoster
    /\ Before.poster = "old.jpg"
    /\ After.poster = "new.jpg"

\* C19, as stated: a delay lies between any two consecutive external calls,
\* those for one record and failed ones included, and it is the same delay
\* in every script.
C19_DelayBetweenAnyTwoCalls ==
    /\ \A i \in 1..(Len(log) - 1) :
          log[i].op # "delay" => log[i + 1].op = "delay"
    /\ (pc = "loop" /\ log # <<>>) => log[Len(log)].op = "delay"
    /\ \A i \in 1..Len(log) :
          log[i].op = "delay" => log[i].ms = DelayOf("fixFailedIds")

\* C19, amended: the calls made for one record follow each other without
\* delay; after them, failed or not, one delay elapses before the loop
\* turns to the next record, of 400 ms in update-ratings and of 600 ms in
\* the other loops; a turn without call has no delay.
C19_OneDelayAfterEachRecord ==
    (script \in Looped /\ pc \in {"loop", "end"} /\ idx > 1) =>
        \/ log = <<>>
        \/ /\ Len(log) \in 2..4
           /\ \A i \in 1..(Len(log) - 1) : log[i].op # "delay"
           /\ log[Len(log)] = Delay(IF script = "updateRatings" THEN 400 ELSE 600)

\* C19 witness: a turn of validate-apple-series made three calls, the last
\* of them failing, and then waited.
C19_ThreeCallsThenDelay ==
    /\ TurnMade("validateApple")
    /\ Len(log) = 4
    /\ ~log[3].ok
    /\ log[4].op = "delay"

\* The file is written at most once, and then after the loop has left its
\* last record and the collection was sorted.
WrittenOnlyAtEnd ==
    /\ writes <= 1
    /\ writes = 1 =>
          /\ pc \in {"writing", "done", "killed"}
          /\ idx = Len(targets) + 1
          /\ NonIncreasing(series)
    /\ (pc = "done" /\ writes = 1) => disk = series

\* C20, as stated: every pass rewrites the file exactly once, after its
\* last record and after the sort, also when it made no correction.
C20_RewrittenExactlyOnce ==
    /\ WrittenOnlyAtEnd
    /\ pc = "done" => writes = 1

\* C20, amended: every pass rewrites the file at most once, after its last
\* record and after the sort; cleanup, curation and the ratings refresh
\* always do, the other passes only when they corrected, noted or added
\* something.
C20_RewrittenOnceIfChanged ==
    /\ WrittenOnlyAtEnd
    /\ pc = "done" =>
          (writes = 1 <=>
              CASE script \in {"fixFailedIds", "fixAppleIds"} -> corrections > 0
                [] script = "validateApple" -> corrections > 0 \/ issues > 0
                [] script = "addHbo" -> newSeries # <<>>
                [] OTHER -> TRUE)

\* C20 witness: fix-apple-ids ended after a correction with the file
\* written once, and the written file is not the loaded one.
C20_WrittenOnceAfterCorrection ==
    /\ pc = "done"
    /\ script = "fixAppleIds"
    /\ corrections = 1
    /\ writes = 1
    /\ disk # disk0

\* The record of the loop's last turn as the data file held it when the
\* pass started (cleanup walks over the file without its duplicates).
Loaded == CHOOSE r \in Range(disk0) : r.uid = After.uid

\* The last turn of cleanup was at a record whose title is in CORRECT_IDS.
TurnAtKnownTitle == TurnMade("cleanup") /\ After.title \in DOMAIN CORRECT_IDS

HasReplacement(title) ==
    title \in DOMAIN PLATFORM_CORRECTIONS /\ PLATFORM_CORRECTIONS[title] # "remove"

\* C22: after the curation pass every record left in the file whose title
\* has a replacement platform has that platform; the platform was assigned
\* only where it differed (the counter of corrections counts exactly those
\* records); and every record that stayed has all its other fields, and the
\* platform too when it has no replacement, as before.
C22_RelabelledPlatformOnly ==
    (Saved /\ script = "fixPlatforms") =>
        /\ \A q \in Range(disk) :
              HasReplacement(q.title) => q.platform = PLATFORM_CORRECTIONS[q.title]
        /\ corrected = Cardinality({ r \in Range(disk0) :
                                       /\ HasReplacement(r.title)
                                       /\ r.platform # PLATFORM_CORRECTIONS[r.title] })
        /\ \A q \in Range(disk) :
              \E r \in Range(disk0) :
                  /\ r.uid = q.uid
                  /\ q = [r EXCEPT !.platform = IF HasReplacement(r.title)
                                                THEN PLATFORM_CORRECTIONS[r.title]
                                                ELSE @]

\* C22 witness: of two records "Red Oaks", one filed under apple and one
\* under amazon, the pass relabelled the first only, and both are in the
\* file under amazon.
C22_OneOfTwoRelabelled ==
    /\ Saved
    /\ script = "fixPlatforms"
    /\ Len(disk) = 2
    /\ corrected = 1
    /\ \A r \in Range(disk0) : r.title = "Red Oaks"
    /\ \A q \in Range(disk) : q.platform = "amazon"

\* A search resolver has read the search page of the call.
Searched == call # Nothing /\ call.kind = "search" /\ result # Nothing

\* The selector i of the chain gives a link an id can be parsed from.
Usable(page, i) == page[i] # <<>> /\ ParseId(page[i]) # Null

\* C23: a search resolver returns an id whenever one of the four selectors
\* of the chain gives a link an id can be parsed from, the id of the first
\* such selector in the order of the chain, and null only if none does.
C23_NotFoundOnlyIfNoUsableLink ==
    Searched =>
        IF \E i \in 1..4 : Usable(call.page, i)
        THEN LET first == CHOOSE i \in 1..4 :
                             /\ Usable(call.page, i)
                             /\ \A j \in 1..(i - 1) : ~Usable(call.page, j)
             IN  result.value = ParseId(call.page[first])
        ELSE result.value = Null

\* C24: in every state of every script, every record in memory (loaded or
\* newly built) and every record in the data file has the imdbUrl made from
\* its id, 'https://www.imdb.com/title/' + id + '/', the loaded file having
\* had it so.
C24_UrlFollowsId ==
    \A r \in Range(series) \cup Range(newSeries) \cup Range(disk) :
        r.imdbUrl = <<"https://www.imdb.com/title/", r.id, "/">>

\* C24 witness: validate-apple-series has replaced the id of a record, whose
\* imdbUrl is no longer the one it was loaded with.
C24_IdReplaced ==
    /\ TurnMade("validateApple")
    /\ After.id # Before.id
    /\ After.imdbUrl # Before.imdbUrl

\* The three passes that repair identifiers.
Repairs == {"fixFailedIds", "validateApple", "fixAppleIds"}

\* The records a repairing pass is to walk over, by their place in the file.
Subset(name, s) ==
    { i \in 1..Len(s) :
        CASE name = "fixFailedIds" -> s[i].title \in {"Hijack", "Red Oaks"}
          [] name = "validateApple" -> s[i].platform = "apple"
          [] name = "fixAppleIds" -> s[i].platform = "apple" /\ s[i].title = "Hijack" }

\* The calls of a turn, held in l, resolved the record to the id given: the
\* search found it and its validation passed.
ResolvedTo(l, id) ==
    \E i \in 1..(Len(l) - 1) :
        /\ l[i].op = "search" /\ l[i].ok /\ l[i].id = id
        /\ l[i + 1].op = "validate" /\ l[i + 1].ok /\ l[i + 1].id = id

\* The calls of a turn, held in l, found the record's own id valid.
FoundValid(l, id) ==
    l # <<>> /\ l[1].op = "validate" /\ l[1].ok /\ l[1].id = id

Listed == HBO_SERIES_TO_ADD[targets[idx - 1]]

\* The title is, ignoring case, the title of a record of the loaded file.
Stored(title) == \E s \in Range(disk0) : toLowerCase(s.title) = toLowerCase(title)

\* C26: add-hbo-series skips, without any call, a listed title that is,
\* ignoring case, the title of a stored record; it builds a record for
\* another listed title only from a fetch that succeeded, and only with a
\* rating above 0; so the written file has no added record whose title was
\* already there, and none with rating 0.
C26_NoStoredTitleAddedAgain ==
    /\ TurnMade("addHbo") =>
          IF Stored(Listed.title)
          THEN log = <<>>
          ELSE /\ Len(log) = 2
               /\ log[1].op = "fetch"
               /\ log[1].id = Listed.id
               /\ (\E e \in Range(newSeries) : e.title = Listed.title) => log[1].ok
    /\ script = "addHbo" =>
          \A k \in 1..Len(newSeries) :
              /\ ~Stored(newSeries[k].title)
              /\ newSeries[k].rating > 0
              /\ \A j \in 1..Len(newSeries) :
                    newSeries[j].title = newSeries[k].title => j = k
    /\ (Saved /\ script = "addHbo") =>
          /\ \A r \in Range(disk0) : r \in Range(disk)
          /\ \A q \in Range(disk) : q \in Range(disk0) \cup Range(newSeries)
          /\ Len(disk) = Len(disk0) + Len(newSeries)

\* C26 witness: the file held "VEEP"; the pass skipped the listed "Veep",
\* added "Girls" and saved.
C26_VeepSkippedGirlsAdded ==
    /\ Saved
    /\ script = "addHbo"
    /\ \E r \in Range(disk0) : r.title = "VEEP"
    /\ Len(newSeries) = 1
    /\ newSeries[1].title = "Girls"
    /\ Len(disk) = Len(disk0) + 1

\* The year was extracted from the metadata text of the call.
Extracted == call # Nothing /\ call.kind = "yearText" /\ result # Nothing

\* The place of the first four digits in a row, 0 without any.
FirstYearAt(text) ==
    IF \E k \in 1..Len(text) : \A i \in k..(k + 3) : i <= Len(text) /\ text[i] \in Digits
    THEN CHOOSE k \in 1..Len(text) :
            /\ \A i \in k..(k + 3) : i <= Len(text) /\ text[i] \in Digits
            /\ \A j \in 1..(k - 1) :
                  \E i \in j..(j + 3) : i > Len(text) \/ text[i] \notin Digits
    ELSE 0

\* A dash and four digits stand right behind the first year.
SecondYearFollows(text) ==
    LET k == FirstYearAt(text)
    IN  /\ k > 0
        /\ k + 8 <= Len(text)
        /\ text[k + 4] \in {EN, "-"}
        /\ \A i \in (k + 5)..(k + 8) : text[i] \in Digits

HasDash(text) == \E i \in 1..Len(text) : text[i] \in {EN, "-"}

\* C27: the year string the extractor makes is empty when the text has no
\* four digits in a row; the first year, an en-dash and the second year
\* when a dash and a second year stand right behind the first; the first
\* year and an en-dash when there is no such second year but a dash
\* somewhere in the text; the first year alone otherwise.  isOngoing is
\* true of it exactly in the third case.
C27_YearRangeForms ==
    Extracted =>
        LET text == call.yearText
            k == FirstYearAt(text)
            year == result.value
            first == SubSeq(text, k, k + 3)
        IN  /\ k = 0 => year = <<>>
            /\ (k > 0 /\ SecondYearFollows(text)) =>
                  year = first \o <<EN>> \o SubSeq(text, k + 5, k + 8)
            /\ (k > 0 /\ ~SecondYearFollows(text) /\ HasDash(text)) =>
                  year = first \o <<EN>>
            /\ (k > 0 /\ ~SecondYearFollows(text) /\ ~HasDash(text)) =>
                  year = first
            /\ isOngoing(year) <=>
                  (k > 0 /\ ~SecondYearFollows(text) /\ HasDash(text))

\* C27 witness: the text "T-2017", with its one year and a dash before it,
\* gave "2017" with a trailing en-dash, an ongoing series.
C27_DashBeforeYearOngoing ==
    /\ Extracted
    /\ call.yearText = <<"T", "-", "2", "0", "1", "7">>
    /\ result.value = <<"2", "0", "1", "7", EN>>
    /\ isOngoing(result.value)

\* C28: a validator that could fetch the page reports valid only if the
\* page shows a title: with no title on the page, no expected title
\* (they are all non-empty) is accepted.
C28_ValidOnlyWithPageTitle ==
    Compared => (result.value => call.pageTitle # <<>>)

\* Both passes have written the file and ended.
BothSaved == pc = "done" /\ wrote /\ beside.pc = "done"

\* C29: when the ratings refresh and the curation ran at the same time on
\* one data file and both have saved, the file holds the corrections of
\* both: no record the curation removed is in it, every record in it has
\* the platform the curation gave it, and every record in it has the rating
\* and the votes the refresh gave it.
C29_BothPassesCorrectionsKept ==
    BothSaved =>
        /\ \A q \in Range(disk) : Keeps(q) /\ Relabel(q) = q
        /\ \A q \in Range(disk) :
              \A s \in Range(series) :
                  s.uid = q.uid => (q.rating = s.rating /\ q.votes = s.votes)

====
